---- MODULE Spec2Model ----
(***************************************************************************)
(* A model of pyAS4/header.py: the Header class that builds the ebMS3/AS4  *)
(* Messaging header as an lxml element tree, appends payload descriptions  *)
(* to its PayloadInfo element and serialises the tree.                     *)
(*                                                                         *)
(* An lxml element is a record [tag, attrib, text, children]; attrib is    *)
(* the sequence of <<name, value>> pairs in insertion order.  A reference  *)
(* to an element inside a tree (self.pay_load_info) is the path of child   *)
(* indices leading to it from the root.  A Python dict (the keyword        *)
(* arguments of a call, a payload) is a function whose DOMAIN is the set   *)
(* of keys that are present.                                               *)
(***************************************************************************)
EXTENDS Integers, Sequences, FiniteSets, TLC

\* ------------------------------------------------------------------ bounds

\* Header objects a client constructs.
MaxHeaders == 2
\* Payload dicts in the list of one payload_append call.
MaxPayloads == 2
\* Children of PayloadInfo and payload dicts of the call, together, for a
\* payload_append call to be made.
MaxParts == 2

\* ----------------------------------------------------------- Python values

\* Python's None.  Every string of the model's input sets differs from it.
None == "<None>"

\* The empty dict.
EmptyDict == <<>>

\* A test for None in place of the test for truth.
TruthyNotNone(v) == v # None

\* bool(v) of an optional string: None and "" are falsy.
Truthy(v) == v # None /\ v # ""

\* d.get(key, None)
Get(d, key) == IF key \in DOMAIN d THEN d[key] ELSE None

\* ------------------------------------------------------------ lxml elements

\* The namespace prefixes of _NS, in the order of the dict.
NS == <<"query", "rs", "rim", "xsi", "sdg", "s12", "eu", "eb3">>

\* _nsmap(ns, tag): the qualified tag name.
nsmap(ns, tag) == ns \o ":" \o tag

\* etree.Element(tag, attrib): a new element without text or children.
Element(tag, attrib) ==
    [tag |-> tag, attrib |-> attrib, text |-> None, children |-> <<>>]

\* elem.text = value
SetText(elem, value) == [elem EXCEPT !.text = value]

\* The element a path refers to in the tree rooted at root.
RECURSIVE At(_, _)
At(root, path) ==
    IF path = <<>> THEN root ELSE At(root.children[Head(path)], Tail(path))

\* etree.SubElement(parent, ...) where parent is the element at path in the
\* tree rooted at root: the tree with child appended to parent's children.
RECURSIVE SubElement(_, _, _)
SubElement(root, path, child) ==
    IF path = <<>>
    THEN [root EXCEPT !.children = Append(@, child)]
    ELSE [root EXCEPT !.children[Head(path)] =
                          SubElement(@, Tail(path), child)]

\* The path of the child that SubElement has just appended to the element at
\* path.
LastChild(root, path) == Append(path, Len(At(root, path).children))

\* ------------------------------------------------------------- the defaults

\* The defaults of Header.__init__'s keyword parameters.
DefaultService == "http://docs.oasis-open.org/ebxml-msg/as4/200902/service"
DefaultServiceType == "urn:oasis:names:tc:ebcore:ebrs:ebms:binding:1.0"
DefaultAction == "http://docs.oasis-open.org/ebxml-msg/as4/200902/action"
DefaultRole == "http://sdg.europa.eu/edelivery/gateway"

\* The values str(uuid.uuid4()) can return when the def statement of
\* Header.__init__ is executed.
UUIDs == {"uuid-1", "uuid-2"}

\* ------------------------------------------------------------------- state

VARIABLES
    \* Header.__init__.__defaults__[0]: the default of conversationid.
    default_conversationid,
    \* The Header objects constructed so far, in order of construction.
    objs,
    \* For each object, the keyword arguments its constructor was called with.
    kwargs,
    \* For each object, what its payload_append calls were passed: the payloads
    \* of the calls whose lists were well-formed, in call order, and whether
    \* some call was passed a list with a malformed payload.
    appended,
    \* For each object, the bytes its xml property returned last, None once
    \* payload_append was called on the object after that.
    returned,
    \* The exception the last call raised, None if it returned.
    raised,
    \* Whether the last call was a constructor call that was passed None for
    \* one of the four party identifiers.
    none_passed

vars == <<default_conversationid, objs, kwargs, appended, returned, raised,
          none_passed>>

\* ---------------------------------------------------------------- __init__

\* The parameters of __init__ bound to the arguments of a call: a parameter
\* that is not supplied takes its default.
Bind(kw) ==
    [c1_party_id |-> kw.c1_party_id,
     c1_party_id_type |-> kw.c1_party_id_type,
     c2_party_id |-> kw.c2_party_id,
     c2_party_id_type |-> kw.c2_party_id_type,
     c3_party_id |-> kw.c3_party_id,
     c3_party_id_type |-> kw.c3_party_id_type,
     c4_party_id |-> kw.c4_party_id,
     c4_party_id_type |-> kw.c4_party_id_type,
     conversationid |-> IF "conversationid" \in DOMAIN kw
                        THEN kw.conversationid ELSE default_conversationid,
     service |-> IF "service" \in DOMAIN kw THEN kw.service ELSE DefaultService,
     service_type |-> IF "service_type" \in DOMAIN kw
                      THEN kw.service_type ELSE DefaultServiceType,
     action |-> IF "action" \in DOMAIN kw THEN kw.action ELSE DefaultAction,
     role |-> IF "role" \in DOMAIN kw THEN kw.role ELSE DefaultRole]

\* A check that leaves the fourth party identifier out.
NoneInPartyIdsSkipsC4(p) ==
    None \in {p.c1_party_id, p.c2_party_id, p.c3_party_id}

\* A check of the first party identifier alone.
NoneInPartyIdsFirstOnly(p) == p.c1_party_id = None

\* None in (c1_party_id, c2_party_id, c3_party_id, c4_party_id)
NoneInPartyIds(p) ==
    None \in {p.c1_party_id, p.c2_party_id, p.c3_party_id, p.c4_party_id}

\* etree.Element(_nsmap('eb3', 'Messaging'), nsmap=_NS)
Messaging == Element(nsmap("eb3", "Messaging"), <<>>)

\* A childless element with a text, as
\* etree.SubElement(parent, tag, attrib).text = text builds it.
Leaf(tag, attrib, text) == SetText(Element(nsmap("eb3", tag), attrib), text)

\* An element with the given children and no text.
Node(tag, children) ==
    [Element(nsmap("eb3", tag), <<>>) EXCEPT !.children = children]

\* A PartyInfo whose From holds the first party in place of the second.
PartyInfoFromC1(self) ==
    LET froms == Node("From",
            << Leaf("PartyId", << <<"type", self.c1_party_id_type>> >>,
                    self.c1_party_id),
               Leaf("Role", <<>>, self.role) >>)
        to == Node("To",
            << Leaf("PartyId", << <<"type", self.c3_party_id_type>> >>,
                    self.c3_party_id),
               Leaf("Role", <<>>, self.role) >>)
    IN  Node("PartyInfo", <<froms, to>>)

\* The PartyInfo element __toxml builds: From with the second party, To with
\* the third, each with the role.
PartyInfo(self) ==
    LET froms == Node("From",
            << Leaf("PartyId", << <<"type", self.c2_party_id_type>> >>,
                    self.c2_party_id),
               Leaf("Role", <<>>, self.role) >>)
        to == Node("To",
            << Leaf("PartyId", << <<"type", self.c3_party_id_type>> >>,
                    self.c3_party_id),
               Leaf("Role", <<>>, self.role) >>)
    IN  Node("PartyInfo", <<froms, to>>)

\* A CollaborationInfo whose Service takes its type from service_type.
CollaborationInfoServiceType(self) ==
    Node("CollaborationInfo",
        << Leaf("Service", << <<"type", self.service_type>> >>, self.service),
           Leaf("Action", <<>>, self.action),
           Leaf("ConversationId", <<>>, self.conversationid) >>)

\* The CollaborationInfo element __toxml builds.
CollaborationInfo(self) ==
    Node("CollaborationInfo",
        << Leaf("Service",
                << <<"type",
                     "urn:oasis:names:tc:ebcore:ebrs:ebms:binding:1.0">> >>,
                self.service),
           Leaf("Action", <<>>, self.action),
           Leaf("ConversationId", <<>>, self.conversationid) >>)

\* The MessageProperties element __toxml builds.
MessageProperties(self) ==
    Node("MessageProperties",
        << Leaf("Property",
                << <<"name", "originalSender">>,
                   <<"type", self.c1_party_id_type>> >>,
                self.c1_party_id),
           Leaf("Property",
                << <<"name", "finalRecipient">>,
                   <<"type", self.c4_party_id_type>> >>,
                self.c4_party_id) >>)

\* Header.__toxml: the tree self._xml holds when it returns.  self is the
\* record of the attributes __init__ has assigned.
toxml(self) ==
    LET pay_load_info == Node("PayloadInfo", <<>>)
        user_message == Node("UserMessage",
            <<PartyInfo(self), CollaborationInfo(self),
              MessageProperties(self), pay_load_info>>)
    IN  SubElement(Messaging, <<>>, user_message)

\* The reference __toxml returns: PayloadInfo is the fourth child of
\* UserMessage, the first child of the root.
PayloadInfoPath == <<1, 4>>

\* The object __init__ leaves behind when it returns.
NewHeader(p) ==
    [c1_party_id |-> p.c1_party_id,
     c1_party_id_type |-> p.c1_party_id_type,
     c2_party_id |-> p.c2_party_id,
     c2_party_id_type |-> p.c2_party_id_type,
     c3_party_id |-> p.c3_party_id,
     c3_party_id_type |-> p.c3_party_id_type,
     c4_party_id |-> p.c4_party_id,
     c4_party_id_type |-> p.c4_party_id_type,
     service |-> p.service,
     service_type |-> p.service_type,
     action |-> p.action,
     conversationid |-> p.conversationid,
     role |-> p.role,
     _xml |-> toxml(p),
     pay_load_info |-> PayloadInfoPath]

\* The four party identifiers among the arguments of a constructor call.
PartyIds(kw) ==
    <<kw.c1_party_id, kw.c2_party_id, kw.c3_party_id, kw.c4_party_id>>

\* Header(**kw): the call raises ValueError before it builds anything, or
\* returns a new object.
Header(kw) ==
    /\ Len(objs) < MaxHeaders
    /\ none_passed' = (\E i \in 1..4 : PartyIds(kw)[i] = None)
    /\ LET p == Bind(kw) IN
         IF NoneInPartyIds(p)
         THEN /\ raised' = "ValueError"
              /\ UNCHANGED <<objs, kwargs, appended, returned>>
         ELSE /\ raised' = None
              /\ objs' = Append(objs, NewHeader(p))
              /\ kwargs' = Append(kwargs, kw)
              /\ appended' = Append(appended,
                                    [payloads |-> <<>>, malformed |-> FALSE])
              /\ returned' = Append(returned, None)
    /\ UNCHANGED default_conversationid

\* ------------------------------------------------------------------ inputs

\* The (identifier, identifier type) pairs a caller passes for a party.
Parties == {<<None, "urn:type:a">>, <<"", "urn:type:a">>,
            <<"urn:party", "urn:type:b">>}

\* The optional keyword arguments a caller passes: none, a service type, a
\* conversation id with a service.
Optionals ==
    {EmptyDict,
     "service_type" :> "urn:service-type",
     ("conversationid" :> "conv-1") @@ ("service" :> "urn:service")}

\* The keyword arguments of a constructor call with the four parties and the
\* optional arguments drawn from the given sets.
KwargsOf(parties, optionals) ==
    {  ("c1_party_id" :> p1[1]) @@ ("c1_party_id_type" :> p1[2])
    @@ ("c2_party_id" :> p2[1]) @@ ("c2_party_id_type" :> p2[2])
    @@ ("c3_party_id" :> p3[1]) @@ ("c3_party_id_type" :> p3[2])
    @@ ("c4_party_id" :> p4[1]) @@ ("c4_party_id_type" :> p4[2])
    @@ o :
        p1 \in parties, p2 \in parties, p3 \in parties, p4 \in parties,
        o \in optionals }

ConstructorKwargs == KwargsOf(Parties, Optionals)

\* ---------------------------------------------------------- payload_append

\* An iteration that adds PartInfo to the parent of PayloadInfo and leaves
\* PayloadInfo alone.
PartInfoStepUserMessage(root, ref, payload) ==
    IF "href" \notin DOMAIN payload \/ "mimetype" \notin DOMAIN payload
    THEN [xml |-> root, raised |-> "KeyError"]
    ELSE [xml |-> SubElement(root, SubSeq(ref, 1, Len(ref) - 1),
                      Element(nsmap("eb3", "PartInfo"),
                              << <<"href", payload["href"]>> >>)),
          raised |-> None]

\* One iteration of the loop of payload_append on the tree rooted at root,
\* ref being self.pay_load_info: the tree when the iteration ends and the
\* exception that ended it, None if it ran to its end.  payload['href'] is
\* evaluated before PartInfo is created; payload['mimetype'], the right-hand
\* side of the assignment to .text, is evaluated before the Property element
\* is created, and after PartInfo and PartProperties were added to the tree.
PartInfoStep(root, ref, payload) ==
    IF "href" \notin DOMAIN payload
    THEN [xml |-> root, raised |-> "KeyError"]
    ELSE
    LET t1 == SubElement(root, ref,
                  Element(nsmap("eb3", "PartInfo"),
                          << <<"href", payload["href"]>> >>))
        pl == LastChild(t1, ref)
        t2 == SubElement(t1, pl, Element(nsmap("eb3", "PartProperties"), <<>>))
        pp == LastChild(t2, pl)
    IN  IF "mimetype" \notin DOMAIN payload
        THEN [xml |-> t2, raised |-> "KeyError"]
        ELSE
        LET t3 == SubElement(t2, pp,
                      Leaf("Property", << <<"name", "MimeType">> >>,
                           payload["mimetype"]))
            t4 == IF Truthy(Get(payload, "CompressionType"))
                  THEN SubElement(t3, pp,
                           Leaf("Property",
                                << <<"name", "CompressionType">> >>,
                                payload["CompressionType"]))
                  ELSE t3
        IN  [xml |-> t4, raised |-> None]

\* for payload in payloads: the loop stops at the first exception.
RECURSIVE PayloadLoop(_, _, _)
PayloadLoop(root, ref, payloads) ==
    IF payloads = <<>>
    THEN [xml |-> root, raised |-> None]
    ELSE LET r == PartInfoStep(root, ref, Head(payloads))
         IN  IF r.raised # None
             THEN r
             ELSE PayloadLoop(r.xml, ref, Tail(payloads))

\* A payload_append that empties PayloadInfo before it adds the payloads.
payload_append_reset(self, payloads) ==
    LET emptied == [self._xml EXCEPT !.children[1].children[4].children = <<>>]
        r == PayloadLoop(emptied, self.pay_load_info, payloads)
    IN  [self |-> [self EXCEPT !._xml = r.xml], raised |-> r.raised]

\* Header.payload_append: the object after the call and the exception the call
\* raised, None if it returned.
payload_append(self, payloads) ==
    LET r == PayloadLoop(self._xml, self.pay_load_info, payloads)
    IN  [self |-> [self EXCEPT !._xml = r.xml], raised |-> r.raised]

\* The keys the docstring of payload_append requires of a payload.
WellFormed(payload) == {"href", "mimetype"} \subseteq DOMAIN payload

\* objs[h].payload_append(payloads)
CallPayloadAppend(h, payloads) ==
    /\ Len(At(objs[h]._xml, objs[h].pay_load_info).children) + Len(payloads)
          <= MaxParts
    /\ \E r \in {payload_append(objs[h], payloads)} :
         /\ objs' = [objs EXCEPT ![h] = r.self]
         /\ raised' = r.raised
         /\ appended' =
              [appended EXCEPT ![h] =
                  IF \A i \in 1..Len(payloads) : WellFormed(payloads[i])
                  THEN [@ EXCEPT !.payloads = @ \o payloads]
                  ELSE [@ EXCEPT !.malformed = TRUE]]
    /\ returned' = [returned EXCEPT ![h] = None]
    /\ none_passed' = FALSE
    /\ UNCHANGED <<default_conversationid, kwargs>>

\* --------------------------------------------------------------------- xml

\* The namespace URIs of _NS.
NSURI ==
    [query |-> "urn:oasis:names:tc:ebxml-regrep:xsd:query:4.0",
     rs |-> "urn:oasis:names:tc:ebxml-regrep:xsd:rs:4.0",
     rim |-> "urn:oasis:names:tc:ebxml-regrep:xsd:rim:4.0",
     xsi |-> "http://www.w3.org/2001/XMLSchema-instance",
     sdg |-> "http://data.europa.eu/sdg#",
     s12 |-> "http://www.w3.org/2003/05/soap-envelope",
     eu |-> "http://eu.domibus.wsplugin/",
     eb3 |-> "http://docs.oasis-open.org/ebxml-msg/ebms/v3.0/ns/core/200704/"]

\* The namespace declarations the root element is written with.
RECURSIVE Declarations(_)
Declarations(prefixes) ==
    IF prefixes = <<>> THEN ""
    ELSE " xmlns:" \o Head(prefixes) \o "=\"" \o NSURI[Head(prefixes)] \o "\""
         \o Declarations(Tail(prefixes))

RootDeclarations == Declarations(NS)

\* The attributes of a start tag.  The strings of the model's input sets hold
\* no character that the serialiser escapes.
RECURSIVE Attributes(_)
Attributes(attrib) ==
    IF attrib = <<>> THEN ""
    ELSE " " \o Head(attrib)[1] \o "=\"" \o Head(attrib)[2] \o "\""
         \o Attributes(Tail(attrib))

\* The indentation of pretty_print=True at a depth: two spaces a level.
RECURSIVE Indent(_)
Indent(depth) == IF depth = 0 THEN "" ELSE "  " \o Indent(depth - 1)

\* The serialisation of an element at a depth, as the sequence of its lines:
\* an element without text and children is an empty-element tag, an element
\* with a text is written on one line, an element with children has each
\* child on lines of its own, one level deeper.
RECURSIVE Dump(_, _, _)
Dump(elem, depth, decl) ==
    LET RECURSIVE DumpAll(_)
        DumpAll(children) ==
            IF children = <<>> THEN <<>>
            ELSE Dump(Head(children), depth + 1, "") \o DumpAll(Tail(children))
        start == Indent(depth) \o "<" \o elem.tag \o decl
                     \o Attributes(elem.attrib)
        end == "</" \o elem.tag \o ">"
    IN  IF elem.children = <<>>
        THEN IF elem.text = None
             THEN <<start \o "/>">>
             ELSE <<start \o ">" \o elem.text \o end>>
        ELSE <<start \o ">" \o (IF elem.text = None THEN "" ELSE elem.text)>>
                 \o DumpAll(elem.children)
                 \o <<Indent(depth) \o end>>

\* etree.tostring(element, pretty_print=True): the lines of the bytes, each
\* ended by a newline in the bytes.
tostring(elem) == Dump(elem, 0, RootDeclarations)

\* Header.element
element(self) == self._xml

\* An xml that indents the tree in place, as etree.indent does, before it
\* serialises it.
xml_indent(self) ==
    LET indented == [self EXCEPT !._xml.text = "\n  "]
    IN  [self |-> indented, bytes |-> tostring(element(indented))]

\* Header.xml: the object after the property was read and the bytes it
\* returned.  etree.tostring does not change the tree it is given.
xml(self) == [self |-> self, bytes |-> tostring(element(self))]

\* objs[h].xml
CallXml(h) ==
    /\ \E r \in {xml(objs[h])} :
         /\ objs' = [objs EXCEPT ![h] = r.self]
         /\ returned' = [returned EXCEPT ![h] = r.bytes]
    /\ raised' = None
    /\ none_passed' = FALSE
    /\ UNCHANGED <<default_conversationid, kwargs, appended>>

\* The payload dicts a caller passes: the well-formed ones, with
\* CompressionType missing, None, empty or set, one that lacks mimetype and one
\* that lacks href.
WellFormedPayloads ==
    {("href" :> "cid:1") @@ ("mimetype" :> "text/xml") @@ c :
        c \in {EmptyDict, "CompressionType" :> None, "CompressionType" :> "",
               "CompressionType" :> "gzip"}}

Payloads ==
    WellFormedPayloads
        \cup {("href" :> "cid:1") @@ ("CompressionType" :> "gzip"),
              "mimetype" :> "text/xml"}

\* The lists of at most n payload dicts.
RECURSIVE PayloadLists(_)
PayloadLists(n) ==
    IF n = 0 THEN {<<>>}
    ELSE LET shorter == PayloadLists(n - 1)
         IN  shorter \cup {Append(l, p) : l \in shorter, p \in Payloads}

\* The arguments of the payload_append calls.
PayloadInputs == PayloadLists(MaxPayloads)

\* The keyword arguments of the constructor calls of a client that goes on to
\* append payloads.
ClientKwargs ==
    KwargsOf({<<"", "urn:type:a">>, <<"urn:party", "urn:type:b">>},
             {EmptyDict, "conversationid" :> "conv-1"})

\* ----------------------------------------------------------- specifications

Init ==
    /\ default_conversationid \in UUIDs
    /\ objs = <<>>
    /\ kwargs = <<>>
    /\ appended = <<>>
    /\ returned = <<>>
    /\ raised = None
    /\ none_passed = FALSE

\* A client that constructs headers.
NextConstruct == \E kw \in ConstructorKwargs : Header(kw)

SpecConstruct == Init /\ [][NextConstruct]_vars

\* A client that constructs one header, appends payloads to it and serialises
\* it.
Next ==
    \/ objs = <<>> /\ \E kw \in ClientKwargs : Header(kw)
    \/ \E h \in 1..Len(objs) : \E payloads \in PayloadInputs :
          CallPayloadAppend(h, payloads)
    \/ \E h \in 1..Len(objs) : CallXml(h)

Spec == Init /\ [][Next]_vars

\* ------------------------------------------------------------------ claims

\* The children of an element that carry a tag of the eb3 namespace.
Tagged(elem, tag) == SelectSeq(elem.children, LAMBDA c : c.tag = "eb3:" \o tag)

\* The value of an attribute of an element, None if it has none of the name.
Attr(elem, name) ==
    LET hits == SelectSeq(elem.attrib, LAMBDA a : a[1] = name)
    IN  IF hits = <<>> THEN None ELSE hits[1][2]

\* The argument a constructor call supplies for a parameter, its documented
\* default if it supplies none.
Arg(kw, name, default) == IF name \in DOMAIN kw THEN kw[name] ELSE default

\* The UserMessage element of object h and the children of its PayloadInfo.
UserMessageOf(h) == objs[h]._xml.children[1]
PartInfos(obj) == Tagged(obj._xml.children[1], "PayloadInfo")[1].children

\* The one child of elem with the tag is a childless element with the text.
HasOne(elem, tag, text) ==
    /\ Len(Tagged(elem, tag)) = 1
    /\ Tagged(elem, tag)[1].text = text
    /\ Tagged(elem, tag)[1].children = <<>>

\* C1: a constructor call that is passed None for one or more of the four
\* party identifiers raises ValueError, whatever its other arguments, and
\* leaves no object behind.
C1_NoneRaisesValueError ==
    [][none_passed' => (raised' = "ValueError" /\ objs' = objs)]_vars

\* C1: a call with a None identifier was made, after an object was built.
C1_Witness == none_passed /\ raised = "ValueError" /\ Len(objs) = 1

\* C2: a constructor call with four non-null party identifiers returns, and
\* the tree of every object has the fixed shape: one From with PartyId id2 of
\* the c2 type, one To with PartyId id3 of the c3 type, both with the role, one
\* Service, Action and ConversationId, and the two MessageProperties entries
\* originalSender with id1 and finalRecipient with id4, in this order.
C2_FixedShape ==
    /\ ~none_passed => raised = None
    /\ \A h \in 1..Len(objs) :
         LET kw == kwargs[h]
             um == UserMessageOf(h)
             role == Arg(kw, "role", DefaultRole)
         IN  /\ Len(objs[h]._xml.children) = 1
             /\ Len(Tagged(um, "PartyInfo")) = 1
             /\ Len(Tagged(um, "CollaborationInfo")) = 1
             /\ Len(Tagged(um, "MessageProperties")) = 1
             /\ LET pi == Tagged(um, "PartyInfo")[1]
                    ci == Tagged(um, "CollaborationInfo")[1]
                    mp == Tagged(um, "MessageProperties")[1]
                IN  /\ Len(pi.children) = 2
                    /\ Len(Tagged(pi, "From")) = 1
                    /\ Len(Tagged(pi, "To")) = 1
                    /\ HasOne(Tagged(pi, "From")[1], "PartyId", kw.c2_party_id)
                    /\ Attr(Tagged(Tagged(pi, "From")[1], "PartyId")[1], "type")
                          = kw.c2_party_id_type
                    /\ HasOne(Tagged(pi, "From")[1], "Role", role)
                    /\ HasOne(Tagged(pi, "To")[1], "PartyId", kw.c3_party_id)
                    /\ Attr(Tagged(Tagged(pi, "To")[1], "PartyId")[1], "type")
                          = kw.c3_party_id_type
                    /\ HasOne(Tagged(pi, "To")[1], "Role", role)
                    /\ Len(ci.children) = 3
                    /\ Len(Tagged(ci, "Service")) = 1
                    /\ Len(Tagged(ci, "Action")) = 1
                    /\ Len(Tagged(ci, "ConversationId")) = 1
                    /\ Len(mp.children) = 2
                    /\ Len(Tagged(mp, "Property")) = 2
                    /\ Attr(mp.children[1], "name") = "originalSender"
                    /\ mp.children[1].text = kw.c1_party_id
                    /\ Attr(mp.children[2], "name") = "finalRecipient"
                    /\ mp.children[2].text = kw.c4_party_id

\* C2: an object was built from party identifiers that differ from position to
\* position.
C2_Witness ==
    \E h \in 1..Len(objs) :
        /\ kwargs[h].c1_party_id = "urn:party" /\ kwargs[h].c2_party_id = ""
        /\ kwargs[h].c3_party_id = "urn:party" /\ kwargs[h].c4_party_id = ""

\* The text of the ConversationId element of object h.
ConversationIdOf(h) ==
    Tagged(Tagged(UserMessageOf(h), "CollaborationInfo")[1],
           "ConversationId")[1].text

\* C4: any two objects constructed without a conversationid have different
\* ConversationId values.
C4_DefaultPerConstruction ==
    \A h1, h2 \in 1..Len(objs) :
        (/\ h1 # h2
         /\ "conversationid" \notin DOMAIN kwargs[h1]
         /\ "conversationid" \notin DOMAIN kwargs[h2])
            => ConversationIdOf(h1) # ConversationIdOf(h2)

\* C8 as stated: in every object all four party identifiers are non-null and
\* non-empty.
C8_NonNullNonEmpty ==
    \A h \in 1..Len(objs) : \A i \in 1..4 :
        PartyIds(objs[h])[i] # None /\ PartyIds(objs[h])[i] # ""

\* C8 as amended: in every object all four party identifiers are non-null.
C8_NonNull ==
    \A h \in 1..Len(objs) : \A i \in 1..4 : PartyIds(objs[h])[i] # None

\* C8: an object was built with the empty string for each party identifier.
C8_Witness ==
    \E h \in 1..Len(objs) : \A i \in 1..4 : PartyIds(objs[h])[i] = ""

\* The arguments of a constructor call but service_type.
ButServiceType(kw) == [k \in DOMAIN kw \ {"service_type"} |-> kw[k]]

\* C10: the type attribute of Service is the fixed binding URN and its text is
\* the service argument; two constructor calls that differ only in
\* service_type build identical trees.
C10_ServiceTypeUnused ==
    /\ \A h \in 1..Len(objs) :
         LET service == Tagged(Tagged(UserMessageOf(h),
                                      "CollaborationInfo")[1], "Service")[1]
         IN  /\ service.attrib =
                   << <<"type",
                        "urn:oasis:names:tc:ebcore:ebrs:ebms:binding:1.0">> >>
             /\ service.text = Arg(kwargs[h], "service", DefaultService)
    /\ \A h1, h2 \in 1..Len(objs) :
         ButServiceType(kwargs[h1]) = ButServiceType(kwargs[h2])
            => objs[h1]._xml = objs[h2]._xml

\* C10: two objects were built from calls that differ in service_type alone.
C10_Witness ==
    \E h1, h2 \in 1..Len(objs) :
        /\ kwargs[h1] # kwargs[h2]
        /\ ButServiceType(kwargs[h1]) = ButServiceType(kwargs[h2])

\* Whether a list of payloads holds one that lacks the mimetype key.
LacksMimetype(payloads) ==
    \E i \in 1..Len(payloads) : "mimetype" \notin DOMAIN payloads[i]

\* C3: a payload_append call whose list holds a payload without mimetype
\* raises KeyError and leaves PayloadInfo with as many children as before.
C3_FailedAppendAddsNothing ==
    [][\A h \in 1..Len(objs) : \A payloads \in PayloadInputs :
          (LacksMimetype(payloads) /\ CallPayloadAppend(h, payloads))
             => /\ raised' = "KeyError"
                /\ Len(PartInfos(objs'[h])) = Len(PartInfos(objs[h]))]_vars

\* The PartInfo the documentation describes for a payload: the href attribute,
\* and one PartProperties with the MimeType property, followed by the
\* CompressionType property if and only if the key is present and truthy.
ExpectedPartInfo(payload) ==
    LET property(name, text) ==
            [tag |-> "eb3:Property", attrib |-> << <<"name", name>> >>,
             text |-> text, children |-> <<>>]
        compressed ==
            /\ "CompressionType" \in DOMAIN payload
            /\ payload.CompressionType \notin {None, ""}
    IN  [tag |-> "eb3:PartInfo",
         attrib |-> << <<"href", payload.href>> >>,
         text |-> None,
         children |-> <<
            [tag |-> "eb3:PartProperties", attrib |-> <<>>, text |-> None,
             children |->
                IF compressed
                THEN <<property("MimeType", payload.mimetype),
                       property("CompressionType", payload.CompressionType)>>
                ELSE <<property("MimeType", payload.mimetype)>>] >>]

\* C5: a payload_append call with a list of well-formed payloads returns and
\* adds to PayloadInfo one PartInfo for each payload, in the order of the list,
\* each as ExpectedPartInfo describes it.
C5_OnePartInfoPerPayload ==
    [][\A h \in 1..Len(objs) :
          LET old == appended[h].payloads
              new == appended'[h].payloads
              before == PartInfos(objs[h])
              after == PartInfos(objs'[h])
          IN  new # old =>
                /\ raised' = None
                /\ Len(after) = Len(before) + (Len(new) - Len(old))
                /\ \A i \in 1..(Len(new) - Len(old)) :
                      after[Len(before) + i] =
                          ExpectedPartInfo(new[Len(old) + i])]_vars

\* C5: the payloads of the documentation's example were appended: the first
\* without CompressionType, the second with it.
C5_Witness ==
    \E h \in 1..Len(objs) :
        /\ Len(appended[h].payloads) = 2
        /\ "CompressionType" \notin DOMAIN appended[h].payloads[1]
        /\ Get(appended[h].payloads[2], "CompressionType") = "gzip"
        /\ Len(PartInfos(objs[h])) = 2
        /\ Len(PartInfos(objs[h])[1].children[1].children) = 1
        /\ Len(PartInfos(objs[h])[2].children[1].children) = 2

\* The object a constructor call with the arguments of object h returns.
AsConstructed(h) == NewHeader(Bind(kwargs[h]))

\* C6: PayloadInfo has no children after construction; as long as every call
\* was passed well-formed payloads, its children are the PartInfo elements of
\* all payloads passed so far, in call order and list order, the same as one
\* call with all of them builds; and every call keeps the children there were
\* as a prefix.
C6_AppendOnly ==
    /\ [](\A h \in 1..Len(objs) :
            ~appended[h].malformed =>
               /\ PartInfos(objs[h]) =
                     [i \in 1..Len(appended[h].payloads) |->
                         ExpectedPartInfo(appended[h].payloads[i])]
               /\ PartInfos(objs[h]) =
                     PartInfos(payload_append(AsConstructed(h),
                                              appended[h].payloads).self))
    /\ [][\A h \in 1..Len(objs) :
             /\ Len(PartInfos(objs'[h])) >= Len(PartInfos(objs[h]))
             /\ SubSeq(PartInfos(objs'[h]), 1, Len(PartInfos(objs[h])))
                   = PartInfos(objs[h])]_vars

\* C6: the same payload was appended twice and is there twice.
C6_Witness ==
    \E h \in 1..Len(objs) :
        /\ ~appended[h].malformed
        /\ Len(appended[h].payloads) = 2
        /\ appended[h].payloads[1] = appended[h].payloads[2]
        /\ Len(PartInfos(objs[h])) = 2

RECURSIVE Emptied(_, _)
Emptied(root, path) ==
    IF path = <<>>
    THEN [root EXCEPT !.children = <<>>]
    ELSE [root EXCEPT !.children[Head(path)] = Emptied(@, Tail(path))]

OutsidePayloadInfo(obj) ==
    [obj EXCEPT !._xml = Emptied(obj._xml, obj.pay_load_info)]

\* C9: no call changes the tree of an object outside the children of
\* PayloadInfo.
C9_RestIsFrozen ==
    [][\A h \in 1..Len(objs) :
          OutsidePayloadInfo(objs'[h]) = OutsidePayloadInfo(objs[h])]_vars

\* C9: an object went through a payload_append that returned, one that raised
\* and a serialisation.
C9_Witness ==
    \E h \in 1..Len(objs) :
        /\ appended[h].malformed
        /\ appended[h].payloads # <<>>
        /\ Len(PartInfos(objs[h])) = 2
        /\ returned[h] # None

====
